---- MODULE Spec2Model ----
(***************************************************************************)
(* slide3_data_overview.py: load avalon_nuclear.csv, derive panic_mode,    *)
(* draw eight panels, save the figure, print the dataset statistics.       *)
(*                                                                         *)
(* The table is kept column-wise, as pandas keeps it: df.col maps a column *)
(* name to the sequence of its values and df.len is len(df).  Countries,   *)
(* years and reactor type codes are encoded as positive integers.          *)
(***************************************************************************)
EXTENDS Integers, Sequences, FiniteSets, TLC

\* ------------------------------------------------------------------ bounds
MaxTruthRows == 2       \* rows of the tables ranging over the 2x2x4 truth table
MaxRows == 3            \* rows of the tables with mixed categorical columns
MaxExtraCountries == 1  \* distinct countries beyond the ten that are listed
ScenarioRows == 1000    \* rows of the end-to-end scenario table
ScenarioPanic == 180    \* rows of it that satisfy the panic_mode predicate
BaseYear == 2000        \* first year of the generated tables
MaxRuns == 2            \* runs of the script on the same input file

\* ------------------------------------------------------- program constants
TopN == 10              \* head(10)
NaN == -1               \* min()/max() of an empty column

InputColumns ==
  {"country", "year", "true_risk_level", "avalon_evac_recommendation",
   "avalon_shutdown_recommendation", "incident_occurred",
   "public_anxiety_index", "social_media_rumour_index",
   "regulator_scrutiny_score", "reactor_type_code"}

external_vars ==
  <<"public_anxiety_index", "social_media_rumour_index", "regulator_scrutiny_score">>

pie_labels == <<"Normal", "Panic Mode">>
colors == <<"#2ecc71", "#e74c3c">>
risk_colors == <<"#3498db", "#f39c12", "#e74c3c">>
incident_labels == <<"No Incident", "Incident">>

\* ------------------------------------------------------ pandas primitives
Range(s) == {s[i] : i \in DOMAIN s}

Min(a, b) == IF a <= b THEN a ELSE b

\* Series.sum(), by halving the index range
RECURSIVE SumRange(_, _, _)
SumRange(s, lo, hi) ==
  IF lo > hi THEN 0
  ELSE IF lo = hi THEN s[lo]
  ELSE LET mid == (lo + hi) \div 2
       IN SumRange(s, lo, mid) + SumRange(s, mid + 1, hi)


\* an off-by-one sum that starts at the second element
sum_skip_first(s) == SumRange(s, 2, Len(s))

sum(s) == SumRange(s, 1, Len(s))

nunique(s) == Cardinality(Range(s))

series_min(s) == IF Len(s) = 0 THEN NaN ELSE CHOOSE v \in Range(s) : \A w \in Range(s) : v <= w
series_max(s) == IF Len(s) = 0 THEN NaN ELSE CHOOSE v \in Range(s) : \A w \in Range(s) : v >= w

\* occurrences of every distinct value of a column
Counts(s) == [v \in Range(s) |-> Cardinality({i \in DOMAIN s : s[i] = v})]

\* the orders that sort the entries of cnt by descending count; pandas does
\* not fix the order of entries with equal counts
RECURSIVE SortedByCount(_, _)
SortedByCount(cnt, vals) ==
  IF vals = {} THEN {<<>>}
  ELSE LET top == {v \in vals : \A w \in vals : cnt[v] >= cnt[w]}
       IN UNION {{<<[index |-> v, value |-> cnt[v]]>> \o t :
                     t \in SortedByCount(cnt, vals \ {v})} : v \in top}

\* Series.value_counts(): the set of results it may return
value_counts(s) == SortedByCount(Counts(s), Range(s))

\* Series.sort_index() of a value_counts() result
RECURSIVE SortByIndex(_, _)
SortByIndex(cnt, vals) ==
  IF vals = {} THEN <<>>
  ELSE LET v == CHOOSE x \in vals : \A w \in vals : x <= w
       IN <<[index |-> v, value |-> cnt[v]]>> \o SortByIndex(cnt, vals \ {v})


\* the counts left in value_counts() order
sort_index_omitted(vc) == vc

sort_index(vc) ==
  LET cnt == [v \in {vc[i].index : i \in DOMAIN vc} |->
                (CHOOSE i \in DOMAIN vc : vc[i].index = v)]
  IN SortByIndex([v \in DOMAIN cnt |-> vc[cnt[v]].value], DOMAIN cnt)


\* the last k entries instead of the first k
head_as_tail(vc, k) == SubSeq(vc, Len(vc) - Min(k, Len(vc)) + 1, Len(vc))

head(vc, k) == SubSeq(vc, 1, Min(k, Len(vc)))

values(vc) == [i \in DOMAIN vc |-> vc[i].value]

\* element-wise Series operations of lines 14-17
SeriesEq(s, k) == [i \in DOMAIN s |-> s[i] = k]
SeriesLe(s, k) == [i \in DOMAIN s |-> s[i] <= k]
SeriesOr(a, b) == [i \in DOMAIN a |-> a[i] \/ b[i]]
SeriesAnd(a, b) == [i \in DOMAIN a |-> a[i] /\ b[i]]
astype_int(a) == [i \in DOMAIN a |-> IF a[i] THEN 1 ELSE 0]

\* ------------------------------------------------------------- formatting
\* a / b rounded to the nearest integer, ties to even (float formatting)
RoundDiv(a, b) ==
  LET q == a \div b
      r == a % b
  IN IF 2 * r < b THEN q
     ELSE IF 2 * r > b THEN q + 1
     ELSE IF q % 2 = 0 THEN q ELSE q + 1

\* f'{v/n*100:.df}' : the number before and the d digits after the decimal
\* point; a division by len(df) = 0 prints nan
FormatPct(v, n, d) ==
  LET scale == IF d = 1 THEN 10 ELSE 100
      u == RoundDiv(v * 100 * scale, n)
  IN IF n = 0 THEN <<NaN, NaN>> ELSE <<u \div scale, u % scale>>

\* f'{n:,}' : the groups of three digits, most significant first
RECURSIVE FormatThousands(_)
FormatThousands(n) ==
  IF n < 1000 THEN <<n>> ELSE FormatThousands(n \div 1000) \o <<n % 1000>>

\* ------------------------------------------------------------ input tables
\* a table from its rows <<country, year, risk, evac, shutdown, incident, reactor>>
Table(rows) ==
  [len |-> Len(rows),
   col |-> [c \in InputColumns |->
              [i \in 1..Len(rows) |->
                 CASE c = "country" -> rows[i][1]
                   [] c = "year" -> rows[i][2]
                   [] c = "true_risk_level" -> rows[i][3]
                   [] c = "avalon_evac_recommendation" -> rows[i][4]
                   [] c = "avalon_shutdown_recommendation" -> rows[i][5]
                   [] c = "incident_occurred" -> rows[i][6]
                   [] c = "reactor_type_code" -> rows[i][7]
                   [] OTHER -> 0]]]

\* sequences over S of length lo..hi
SeqsOf(S, lo, hi) == UNION {[1..n -> S] : n \in lo..hi}

\* every combination of the three inputs of panic_mode, other columns fixed
TruthRows ==
  {<<1, BaseYear, r, e, s, 0, 1>> : r \in 0..3, e \in 0..1, s \in 0..1}

TruthTables == {Table(rows) : rows \in SeqsOf(TruthRows, 1, MaxTruthRows)}

\* rows that vary the recommendation, the incident flag and the country
MixRows ==
  {<<c, BaseYear + i, 2 - e, e, 0, i, 1 + e>> : c \in 1..2, e \in 0..1, i \in 0..1}

MixTables == {Table(rows) : rows \in SeqsOf(MixRows, 0, MaxRows)}

\* d countries, country k on k rows and country x on one more; the first row
\* alone is a panic row
CountryRows(d, x) ==
  LET owner == [k \in 1..d |-> [j \in 1..k |-> k]]
      RECURSIVE Cat(_)
      Cat(k) == IF k = 0 THEN <<>> ELSE Cat(k - 1) \o owner[k]
      cs == IF x = 0 THEN Cat(d) ELSE Cat(d) \o <<x>>
  IN [i \in 1..Len(cs) |->
        <<cs[i], BaseYear + (i % 3), i % 4,
          IF i = 1 THEN 1 ELSE 0, 0, IF i <= 2 THEN 1 ELSE 0, 1 + (i % 2)>>]

CountryTables ==
  {Table(CountryRows(d, x)) : d \in (TopN - 1)..(TopN + MaxExtraCountries), x \in 0..2}

\* the end-to-end scenario: the first ScenarioPanic rows satisfy the predicate
ScenarioTable ==
  Table([i \in 1..ScenarioRows |->
           <<1 + (i % 3), BaseYear + (i % 2), 1,
             IF i <= ScenarioPanic THEN 1 ELSE 0, 0, i % 2, 1 + (i % 2)>>])

\* a table with one of the expected columns absent
DropColumn(t, c) ==
  [len |-> t.len, col |-> [k \in (DOMAIN t.col) \ {c} |-> t.col[k]]]

SchemaBase ==
  Table(<<<<1, BaseYear, 1, 1, 0, 0, 1>>, <<2, BaseYear + 1, 3, 0, 1, 1, 2>>>>)

MissingColumnTables == {DropColumn(SchemaBase, c) : c \in InputColumns}

InputTables ==
  TruthTables \cup MixTables \cup CountryTables \cup {ScenarioTable}
    \cup MissingColumnTables
\* ------------------------------------------------------------------- state
VARIABLES
  csv,          \* avalon_nuclear.csv on disk
  run,          \* number of the current run of the script
  pc,           \* the statement group the run is at
  df,           \* the in-memory table
  fig,          \* the figure being composed
  image,        \* slide3_data_overview.png on disk
  stdout,       \* lines printed by the current run
  trace,        \* statement groups the current run has completed
  prev          \* what the previous run printed and whether it completed

vars == <<csv, run, pc, df, fig, image, stdout, trace, prev>>

StepOrder ==
  <<"load", "derive", "panel1", "panel2", "panel3", "panel4", "panel5",
    "panel6", "panel7", "panel8", "save", "confirm", "header", "total",
    "panic", "normal", "countries", "reactors">>

PanelSteps ==
  {"panel1", "panel2", "panel3", "panel4", "panel5", "panel6", "panel7", "panel8"}

NoTable == [len |-> 0, col |-> <<>>]

BlankFigure ==
  [ax1_text |-> <<>>, ax2_wedges |-> <<>>, ax3_bars |-> <<>>,
   ax4_bars |-> <<>>, ax4_texts |-> <<>>, ax5_boxes |-> <<>>,
   ax6_line |-> <<>>, ax7_bars |-> <<>>, ax7_inverted |-> FALSE,
   footer |-> <<>>]

Init ==
  /\ csv \in InputTables
  /\ run = 1
  /\ pc = "load"
  /\ df = NoTable
  /\ fig = BlankFigure
  /\ image = [written |-> FALSE, by |-> 0, panels |-> {}]
  /\ stdout = <<>>
  /\ trace = <<>>
  /\ prev = [stdout |-> <<>>, complete |-> FALSE]

\* the statement group `step` completed; control falls through to `next`
Advance(step, next) ==
  /\ pc' = next
  /\ trace' = Append(trace, step)

\* an unhandled exception: the interpreter exits with a traceback
Abort ==
  /\ pc' = "aborted"
  /\ UNCHANGED trace

Has(c) == c \in DOMAIN df.col

\* ----------------------------------------------------------------- line 11
Load ==
  /\ pc = "load"
  /\ df' = csv
  /\ Advance("load", "derive")
  /\ UNCHANGED <<csv, run, fig, image, stdout, prev>>

\* the file is missing, unreadable or not parsable
LoadFail ==
  /\ pc = "load"
  /\ Abort
  /\ UNCHANGED <<csv, run, df, fig, image, stdout, prev>>

\* ------------------------------------------------------------- lines 14-17
DeriveColumns ==
  {"avalon_evac_recommendation", "avalon_shutdown_recommendation", "true_risk_level"}


\* the risk threshold taken as strict
panic_mode_strict(t) ==
  astype_int(
    SeriesAnd(SeriesOr(SeriesEq(t.col["avalon_evac_recommendation"], 1),
                       SeriesEq(t.col["avalon_shutdown_recommendation"], 1)),
              SeriesLe(t.col["true_risk_level"], 1)))

panic_mode(t) ==
  astype_int(
    SeriesAnd(SeriesOr(SeriesEq(t.col["avalon_evac_recommendation"], 1),
                       SeriesEq(t.col["avalon_shutdown_recommendation"], 1)),
              SeriesLe(t.col["true_risk_level"], 2)))

\* df['panic_mode'] = ... : the column is added to the table in place
SetColumn(t, c, s) ==
  [len |-> t.len,
   col |-> [k \in (DOMAIN t.col) \cup {c} |-> IF k = c THEN s ELSE t.col[k]]]

Derive ==
  /\ pc = "derive"
  /\ DeriveColumns \subseteq DOMAIN df.col
  /\ df' = SetColumn(df, "panic_mode", panic_mode(df))
  /\ Advance("derive", "panel1")
  /\ UNCHANGED <<csv, run, fig, image, stdout, prev>>

DeriveFail ==
  /\ pc = "derive"
  /\ ~(DeriveColumns \subseteq DOMAIN df.col)
  /\ Abort
  /\ UNCHANGED <<csv, run, df, fig, image, stdout, prev>>

\* ------------------------------------------------------------- lines 19-40
Panel1 ==
  /\ pc = "panel1"
  /\ Has("country") /\ Has("year")
  /\ fig' = [fig EXCEPT !.ax1_text =
       <<[Records |-> FormatThousands(df.len),
          Features |-> Cardinality(DOMAIN df.col),
          Countries |-> nunique(df.col["country"]),
          TimeSpan |-> <<series_min(df.col["year"]), series_max(df.col["year"])>>,
          MissingValues |-> 0]>>]
  /\ Advance("panel1", "panel2")
  /\ UNCHANGED <<csv, run, df, image, stdout, prev>>

Panel1Fail ==
  /\ pc = "panel1"
  /\ ~(Has("country") /\ Has("year"))
  /\ Abort
  /\ UNCHANGED <<csv, run, df, fig, image, stdout, prev>>

\* ------------------------------------------------------------- lines 43-49
\* ax2.pie(x, labels, colors): wedge i takes labels[i] and colors[i]
pie(x, labels, cols) ==
  [i \in DOMAIN x |->
     [label |-> labels[i], color |-> cols[i], size |-> x[i],
      autopct |-> FormatPct(x[i], sum(x), 1)]]

Panel2 ==
  /\ pc = "panel2"
  /\ \E panic_counts \in value_counts(df.col["panic_mode"]) :
       /\ Len(panic_counts) = Len(pie_labels)
       /\ fig' = [fig EXCEPT !.ax2_wedges = pie(values(panic_counts), pie_labels, colors)]
  /\ Advance("panel2", "panel3")
  /\ UNCHANGED <<csv, run, df, image, stdout, prev>>


\* the pie error swallowed: the run goes on to the next panel
Panel2Fail_swallowed ==
  /\ pc = "panel2"
  /\ nunique(df.col["panic_mode"]) # Len(pie_labels)
  /\ pc' = "panel3"
  /\ UNCHANGED <<csv, run, df, fig, image, stdout, trace, prev>>

\* ValueError: 'label' must be of length 'x'
Panel2Fail ==
  /\ pc = "panel2"
  /\ nunique(df.col["panic_mode"]) # Len(pie_labels)
  /\ Abort
  /\ UNCHANGED <<csv, run, df, fig, image, stdout, prev>>

\* ------------------------------------------------------------- lines 52-60
\* the colour list is cycled over the bars
Cycle(cols, i) == cols[((i - 1) % Len(cols)) + 1]

Panel3 ==
  /\ pc = "panel3"
  /\ Has("true_risk_level")
  /\ \E vc \in value_counts(df.col["true_risk_level"]) :
       LET risk_counts == sort_index(vc)
       IN fig' = [fig EXCEPT !.ax3_bars =
            [i \in DOMAIN risk_counts |->
               [x |-> risk_counts[i].index, height |-> risk_counts[i].value,
                color |-> Cycle(risk_colors, i), text |-> risk_counts[i].value]]]
  /\ Advance("panel3", "panel4")
  /\ UNCHANGED <<csv, run, df, image, stdout, prev>>

\* ------------------------------------------------------------- lines 63-70
\* np.broadcast_arrays of the two x positions and the heights
Broadcast(n, h) == IF Len(h) = 1 THEN [i \in 1..n |-> h[1]] ELSE h

CanBroadcast(n, h) == Len(h) = 1 \/ Len(h) = n

bar(labels, heights, cols) ==
  LET h == Broadcast(Len(labels), heights)
  IN [i \in DOMAIN labels |-> [label |-> labels[i], height |-> h[i], color |-> cols[i]]]

Panel4 ==
  /\ pc = "panel4"
  /\ Has("incident_occurred")
  /\ \E incident_counts \in value_counts(df.col["incident_occurred"]) :
       /\ CanBroadcast(Len(incident_labels), values(incident_counts))
       /\ fig' = [fig EXCEPT
            !.ax4_bars = bar(incident_labels, values(incident_counts), colors),
            !.ax4_texts = [i \in DOMAIN incident_counts |->
                             [x |-> i - 1, v |-> incident_counts[i].value,
                              pct |-> FormatPct(incident_counts[i].value, df.len, 1)]]]
  /\ Advance("panel4", "panel5")
  /\ UNCHANGED <<csv, run, df, image, stdout, prev>>

\* KeyError, or ValueError: shape mismatch
Panel4Fail ==
  /\ pc = "panel4"
  /\ \/ ~Has("incident_occurred")
     \/ /\ Has("incident_occurred")
        /\ \A incident_counts \in value_counts(df.col["incident_occurred"]) :
             ~CanBroadcast(Len(incident_labels), values(incident_counts))
  /\ Abort
  /\ UNCHANGED <<csv, run, df, fig, image, stdout, prev>>
\* ------------------------------------------------------------- lines 73-84
box_labels == <<"Public Anxiety", "Social Media Rumors", "Regulatory Scrutiny">>
box_colors == <<"#3498db", "#9b59b6", "#e67e22">>

Panel5 ==
  /\ pc = "panel5"
  /\ \A i \in DOMAIN external_vars : Has(external_vars[i])
  /\ fig' = [fig EXCEPT !.ax5_boxes =
       [i \in DOMAIN external_vars |->
          [label |-> box_labels[i], facecolor |-> box_colors[i],
           n |-> Len(df.col[external_vars[i]]),
           total |-> sum(df.col[external_vars[i]])]]]
  /\ Advance("panel5", "panel6")
  /\ UNCHANGED <<csv, run, df, image, stdout, prev>>

Panel5Fail ==
  /\ pc = "panel5"
  /\ \E i \in DOMAIN external_vars : ~Has(external_vars[i])
  /\ Abort
  /\ UNCHANGED <<csv, run, df, fig, image, stdout, prev>>

\* ------------------------------------------------------------- lines 87-94
Panel6 ==
  /\ pc = "panel6"
  /\ Has("year")
  /\ \E vc \in value_counts(df.col["year"]) :
       LET year_counts == sort_index(vc)
       IN fig' = [fig EXCEPT !.ax6_line =
            [i \in DOMAIN year_counts |->
               [x |-> year_counts[i].index, y |-> year_counts[i].value]]]
  /\ Advance("panel6", "panel7")
  /\ UNCHANGED <<csv, run, df, image, stdout, prev>>

\* ------------------------------------------------------------ lines 97-106
\* barh at positions 0..n-1, labelled with the index, annotated with the count
barh(top_countries) ==
  [i \in DOMAIN top_countries |->
     [y |-> i - 1, width |-> top_countries[i].value,
      ticklabel |-> top_countries[i].index, text |-> top_countries[i].value]]


\* the table itself cut down to its first TopN rows
Panel7_truncating ==
  /\ pc = "panel7"
  /\ Has("country")
  /\ \E vc \in value_counts(df.col["country"]) :
       LET top_countries == head(vc, TopN)
       IN fig' = [fig EXCEPT !.ax7_bars = barh(top_countries),
                             !.ax7_inverted = TRUE]
  /\ df' = [len |-> Min(TopN, df.len),
            col |-> [c \in DOMAIN df.col |-> SubSeq(df.col[c], 1, Min(TopN, df.len))]]
  /\ Advance("panel7", "panel8")
  /\ UNCHANGED <<csv, run, image, stdout, prev>>

Panel7 ==
  /\ pc = "panel7"
  /\ Has("country")
  /\ \E vc \in value_counts(df.col["country"]) :
       LET top_countries == head(vc, TopN)
       IN fig' = [fig EXCEPT !.ax7_bars = barh(top_countries),
                             !.ax7_inverted = TRUE]
  /\ Advance("panel7", "panel8")
  /\ UNCHANGED <<csv, run, df, image, stdout, prev>>

\* ----------------------------------------------------------- lines 109-111
Panel8 ==
  /\ pc = "panel8"
  /\ fig' = [fig EXCEPT !.footer =
       <<"panic_mode = 1 when Avalon recommends evacuation/shutdown despite true_risk_level <= 2">>]
  /\ Advance("panel8", "save")
  /\ UNCHANGED <<csv, run, df, image, stdout, prev>>

\* ---------------------------------------------------------------- line 113
Save ==
  /\ pc = "save"
  /\ image' = [written |-> TRUE, by |-> run,
               panels |-> {s \in Range(trace) : s \in PanelSteps}]
  /\ Advance("save", "confirm")
  /\ UNCHANGED <<csv, run, df, fig, stdout, prev>>

\* the image cannot be written (permissions, disk space)
SaveFail ==
  /\ pc = "save"
  /\ Abort
  /\ UNCHANGED <<csv, run, df, fig, image, stdout, prev>>

\* ----------------------------------------------------------- lines 114-120
Line(label, value, pct) == [label |-> label, value |-> value, pct |-> pct]

print(step, next, line) ==
  /\ pc = step
  /\ stdout' = Append(stdout, line)
  /\ Advance(step, next)
  /\ UNCHANGED <<csv, run, df, fig, image, prev>>

PrintConfirm ==
  print("confirm", "header", Line("Visualization saved", <<>>, <<>>))

PrintHeader ==
  print("header", "total", Line("Dataset Statistics", <<>>, <<>>))

PrintTotal ==
  print("total", "panic", Line("Total records", FormatThousands(df.len), <<>>))

PrintPanic ==
  print("panic", "normal",
        Line("Panic mode cases", <<sum(df.col["panic_mode"])>>,
             FormatPct(sum(df.col["panic_mode"]), df.len, 2)))

PrintNormal ==
  print("normal", "countries",
        Line("Normal cases", <<df.len - sum(df.col["panic_mode"])>>,
             FormatPct(df.len - sum(df.col["panic_mode"]), df.len, 2)))


\* the label of the first top-countries bar printed in place of the count
PrintCountries_first_label ==
  /\ Has("country")
  /\ print("countries", "reactors",
           Line("Unique countries", <<fig.ax7_bars[1].ticklabel>>, <<>>))

PrintCountries ==
  /\ Has("country")
  /\ print("countries", "reactors",
           Line("Unique countries", <<nunique(df.col["country"])>>, <<>>))

PrintReactors ==
  /\ Has("reactor_type_code")
  /\ print("reactors", "done",
           Line("Reactor types", <<nunique(df.col["reactor_type_code"])>>, <<>>))

PrintReactorsFail ==
  /\ pc = "reactors"
  /\ ~Has("reactor_type_code")
  /\ Abort
  /\ UNCHANGED <<csv, run, df, fig, image, stdout, prev>>

\* ------------------------------------------------------------------ re-run
\* the script is started again on the unchanged input file
Rerun ==
  /\ pc \in {"done", "aborted"}
  /\ run < MaxRuns
  /\ run' = run + 1
  /\ pc' = "load"
  /\ df' = NoTable
  /\ fig' = BlankFigure
  /\ stdout' = <<>>
  /\ trace' = <<>>
  /\ prev' = [stdout |-> stdout, complete |-> (pc = "done")]
  /\ UNCHANGED <<csv, image>>

Next ==
  \/ Load \/ LoadFail
  \/ Derive \/ DeriveFail
  \/ Panel1 \/ Panel1Fail
  \/ Panel2 \/ Panel2Fail
  \/ Panel3
  \/ Panel4 \/ Panel4Fail
  \/ Panel5 \/ Panel5Fail
  \/ Panel6
  \/ Panel7
  \/ Panel8
  \/ Save \/ SaveFail
  \/ PrintConfirm \/ PrintHeader \/ PrintTotal \/ PrintPanic \/ PrintNormal
  \/ PrintCountries \/ PrintReactors \/ PrintReactorsFail
  \/ Rerun

Spec == Init /\ [][Next]_vars
\* ================================================================== claims
\* Steps the current run has completed, and the input table's row counts.
Completed(step) == step \in Range(trace)

RowsWith(t, c, v) == Cardinality({i \in 1..t.len : t.col[c][i] = v})

\* rows of the input table satisfying the panic_mode predicate of the spec
PredicateRows(t) ==
  {i \in 1..t.len :
     /\ \/ t.col["avalon_evac_recommendation"][i] = 1
        \/ t.col["avalon_shutdown_recommendation"][i] = 1
     /\ t.col["true_risk_level"][i] <= 2}

\* the number a thousands-separated text stands for
RECURSIVE ParseThousands(_)
ParseThousands(g) ==
  IF Len(g) = 0 THEN 0
  ELSE ParseThousands(SubSeq(g, 1, Len(g) - 1)) * 1000 + g[Len(g)]

\* C1: after the derivation step, on every row whose recommendations are in
\* {0,1} and whose risk level is in 0..3, panic_mode is 1 exactly when
\* (evac = 1 or shutdown = 1) and risk <= 2, and is 0 otherwise; it is never
\* anything but 0 or 1.
C1_PanicModeRule ==
  Completed("derive") =>
    \A i \in 1..df.len :
      LET e == df.col["avalon_evac_recommendation"][i]
          sd == df.col["avalon_shutdown_recommendation"][i]
          r == df.col["true_risk_level"][i]
          pm == df.col["panic_mode"][i]
      IN (e \in {0, 1} /\ sd \in {0, 1} /\ r \in 0..3) =>
           /\ pm \in {0, 1}
           /\ pm = 1 <=> <<e, sd, r>> \in
                {<<1, 0, 0>>, <<1, 0, 1>>, <<1, 0, 2>>,
                 <<0, 1, 0>>, <<0, 1, 1>>, <<0, 1, 2>>,
                 <<1, 1, 0>>, <<1, 1, 1>>, <<1, 1, 2>>}

\* a derived two-row table: shutdown alone at risk 2 is panic, evacuation at
\* risk 3 is not
C1_Witness ==
  /\ Completed("derive")
  /\ df.len = 2
  /\ df.col["avalon_evac_recommendation"] = <<0, 1>>
  /\ df.col["avalon_shutdown_recommendation"] = <<1, 0>>
  /\ df.col["true_risk_level"] = <<2, 3>>
  /\ df.col["panic_mode"] = <<1, 0>>

\* C2: for a non-empty table the printed panic count is the number of rows
\* satisfying the predicate, the printed normal count is the row count minus
\* it, the two add up to the printed total; 1,000 rows with 180 predicate
\* rows print 180 (18.00%) and 820 (82.00%).
C2_PrintedCounts ==
  csv.len > 0 =>
    \A i \in DOMAIN stdout : \A j \in DOMAIN stdout : \A k \in DOMAIN stdout :
      LET np == Cardinality(PredicateRows(csv))
      IN /\ stdout[i].label = "Panic mode cases" => stdout[i].value = <<np>>
         /\ stdout[i].label = "Normal cases" => stdout[i].value = <<csv.len - np>>
         /\ ( /\ stdout[i].label = "Panic mode cases"
              /\ stdout[j].label = "Normal cases"
              /\ stdout[k].label = "Total records" )
            => stdout[i].value[1] + stdout[j].value[1] = ParseThousands(stdout[k].value)
         /\ (csv.len = 1000 /\ np = 180 /\ stdout[i].label = "Panic mode cases")
            => stdout[i] = Line("Panic mode cases", <<180>>, <<18, 0>>)
         /\ (csv.len = 1000 /\ np = 180 /\ stdout[i].label = "Normal cases")
            => stdout[i] = Line("Normal cases", <<820>>, <<82, 0>>)

\* the end-to-end scenario has printed all of its lines
C2_Witness ==
  /\ pc = "done"
  /\ csv.len = 1000
  /\ Cardinality(PredicateRows(csv)) = 180
  /\ stdout[3] = Line("Total records", <<1, 0>>, <<>>)
  /\ stdout[4] = Line("Panic mode cases", <<180>>, <<18, 0>>)
  /\ stdout[5] = Line("Normal cases", <<820>>, <<82, 0>>)

\* C3: in the pie the wedge labelled 'Normal' is green and has the size of
\* the count of rows with panic_mode = 0, the wedge labelled 'Panic Mode' is
\* red and has the size of the count of rows with panic_mode = 1, whichever
\* class is more frequent.
C3_PieLabelsMatchClasses ==
  Completed("panel2") =>
    \A i \in DOMAIN fig.ax2_wedges :
      LET w == fig.ax2_wedges[i]
      IN /\ w.label = "Normal" =>
              w.color = "#2ecc71" /\ w.size = RowsWith(df, "panic_mode", 0)
         /\ w.label = "Panic Mode" =>
              w.color = "#e74c3c" /\ w.size = RowsWith(df, "panic_mode", 1)

\* C4: whenever the incident panel renders, it has exactly two bars, their
\* values add up to the row count, and each bar carries the percentage
\* value / rows * 100 to one decimal.
C4_IncidentBarsSum ==
  Completed("panel4") =>
    /\ Len(fig.ax4_bars) = 2
    /\ fig.ax4_bars[1].height + fig.ax4_bars[2].height = df.len
    /\ \A i \in DOMAIN fig.ax4_bars :
         \E k \in DOMAIN fig.ax4_texts :
           /\ fig.ax4_texts[k].x = i - 1
           /\ fig.ax4_texts[k].v = fig.ax4_bars[i].height
           /\ LET t == fig.ax4_texts[k].pct[1] * 10 + fig.ax4_texts[k].pct[2]
                  d == 2 * 1000 * fig.ax4_bars[i].height - 2 * t * df.len
              IN d <= df.len /\ -d <= df.len

\* C5: the risk chart has one bar per distinct true_risk_level of the table,
\* in ascending order of level, each as high as the number of rows with that
\* level, and the heights add up to the row count.
C5_RiskBars ==
  Completed("panel3") =>
    LET b == fig.ax3_bars
    IN /\ {b[i].x : i \in DOMAIN b} = Range(csv.col["true_risk_level"])
       /\ Len(b) = Cardinality(Range(csv.col["true_risk_level"]))
       /\ \A i \in DOMAIN b : \A j \in DOMAIN b : i < j => b[i].x < b[j].x
       /\ \A i \in DOMAIN b : b[i].height = RowsWith(csv, "true_risk_level", b[i].x)
       /\ sum([i \in DOMAIN b |-> b[i].height]) = csv.len

\* all four risk levels drawn, and not in the order of their frequency
C5_Witness ==
  /\ Completed("panel3")
  /\ Len(fig.ax3_bars) = 4
  /\ \E i \in 1..3 : fig.ax3_bars[i].height < fig.ax3_bars[i + 1].height

\* C6: the top-countries panel lists min(10, distinct countries) entries and
\* never more than 10, in descending order of observation count (equal
\* counts in any order), every listed country has at least the count of
\* every country not listed, and the highest count is drawn at the top.
C6_TopCountries ==
  Completed("panel7") =>
    LET b == fig.ax7_bars
        all == Range(csv.col["country"])
        listed == {b[i].ticklabel : i \in DOMAIN b}
    IN /\ Len(b) = Min(10, Cardinality(all))
       /\ Len(b) <= 10
       /\ Cardinality(listed) = Len(b)
       /\ \A i \in DOMAIN b :
            /\ b[i].ticklabel \in all
            /\ b[i].width = RowsWith(csv, "country", b[i].ticklabel)
            /\ b[i].text = b[i].width
            /\ b[i].y = i - 1
       /\ \A i \in DOMAIN b : \A j \in DOMAIN b : i < j => b[i].width >= b[j].width
       /\ \A c \in listed : \A o \in all \ listed :
            RowsWith(csv, "country", c) >= RowsWith(csv, "country", o)
       /\ fig.ax7_inverted
       /\ \A i \in DOMAIN b : b[i].y = 0 =>
            \A c \in all : b[i].width >= RowsWith(csv, "country", c)

\* eleven countries, ten listed, the one left out tied with the last listed
C6_Witness ==
  /\ Completed("panel7")
  /\ Cardinality(Range(csv.col["country"])) = 11
  /\ Len(fig.ax7_bars) = 10
  /\ fig.ax7_bars[1].width > fig.ax7_bars[10].width
  /\ \E o \in Range(csv.col["country"]) :
       /\ \A i \in DOMAIN fig.ax7_bars : fig.ax7_bars[i].ticklabel # o
       /\ RowsWith(csv, "country", o) = fig.ax7_bars[10].width

\* C7: the steps run in one fixed order with none skipped or reordered; a
\* failing step aborts the run and nothing runs after it; lines are printed
\* only in runs that wrote the image, and the image is written only in runs
\* in which loading, derivation and all eight panels succeeded.
C7_FixedOrderFailFast ==
  /\ [](/\ Len(trace) <= Len(StepOrder)
        /\ \A i \in DOMAIN trace : trace[i] = StepOrder[i]
        /\ pc \in {"done", "aborted"} \/ pc = StepOrder[Len(trace) + 1]
        /\ pc = "done" <=> Len(trace) = Len(StepOrder)
        /\ stdout # <<>> => image.written /\ image.by = run
        /\ Len(stdout) = Cardinality({i \in DOMAIN trace : trace[i] \in
              {"confirm", "header", "total", "panic", "normal", "countries", "reactors"}})
        /\ (image.written /\ image.by = run) =>
              /\ Completed("load") /\ Completed("derive")
              /\ image.panels = PanelSteps
              /\ \A p \in PanelSteps : Completed(p))
  /\ [][(pc = "aborted" /\ run' = run) =>
          (trace' = trace /\ stdout' = stdout /\ image' = image /\ fig' = fig
             /\ df' = df /\ pc' = "aborted")]_vars

\* a run aborted by the pie error after the first panel: nothing printed, no
\* image written
C7_Witness ==
  /\ pc = "aborted"
  /\ trace = <<"load", "derive", "panel1">>
  /\ stdout = <<>>
  /\ ~image.written

\* C8: two complete runs on the same table print the same statistics.
C8_SameStatistics ==
  (run > 1 /\ prev.complete /\ pc = "done") => stdout = prev.stdout

\* a second complete run on a table whose value counts have a tie
C8_Witness ==
  /\ run = 2 /\ prev.complete /\ pc = "done"
  /\ Len(stdout) = 7
  /\ RowsWith(csv, "country", 1) = RowsWith(csv, "country", 2)
  /\ RowsWith(csv, "country", 1) > 0

\* C9: once panic_mode is derived, no later step of the run changes the
\* table: no row, column or cell is added, removed or modified.
C9_TableFrozen ==
  [][(Completed("derive") /\ run' = run) => df' = df]_vars

\* a complete run ends on the input table plus the panic_mode column
C9_Witness ==
  /\ pc = "done"
  /\ df.len = csv.len /\ df.len > TopN
  /\ DOMAIN df.col = InputColumns \cup {"panic_mode"}
  /\ \A c \in InputColumns : df.col[c] = csv.col[c]

\* C10: when incident_occurred takes both values, the bar labelled
\* 'No Incident' is as high as the number of rows with incident_occurred = 0
\* and the bar labelled 'Incident' as the number with incident_occurred = 1.
C10_IncidentLabelsMatchValues ==
  ( /\ Completed("panel4")
    /\ Range(df.col["incident_occurred"]) = {0, 1} ) =>
    \A i \in DOMAIN fig.ax4_bars :
      LET b == fig.ax4_bars[i]
      IN /\ b.label = "No Incident" => b.height = RowsWith(df, "incident_occurred", 0)
         /\ b.label = "Incident" => b.height = RowsWith(df, "incident_occurred", 1)
====
